---- MODULE Spec2Model ----
(***************************************************************************)
(* Model of the schema-aware selection core of sql-generator:             *)
(*   sql_generator/core/schema_manager.py  (RelationshipGraph,            *)
(*       SchemaManager: graph build, path finder, relationship            *)
(*       completion, table and column selection)                          *)
(*   sql_generator/core/query_analyzer.py  (QueryAnalyzer.analyze_query)  *)
(*   sql_generator/main.py                 (normalize_score)              *)
(*                                                                         *)
(* Numbers.  Raw similarity scores are integers in hundredths (42 is      *)
(* 0.42).  Confidences on the selectors' 0..1 scale are integers in       *)
(* ConfOne-ths (ConfOne is 1.0); normalize_score's 0..100 percentage is   *)
(* kept in PctOne-ths of a percent.  With these units every band formula  *)
(* of the code is exact integer arithmetic.                               *)
(*                                                                         *)
(* Python values.  A list is a sequence, a set is a set, a dict is a      *)
(* record [keys, val]: keys is the sequence of keys in insertion order    *)
(* (dicts iterate in insertion order), val the mapping.  A str set has no *)
(* order of its own: it iterates in the order the process' string hashing *)
(* gives, which is fixed while the process lives and differs between      *)
(* processes.  iter_order is that order.                                  *)
(***************************************************************************)
EXTENDS Integers, Sequences, FiniteSets, TLC

VARIABLES
    adjacency_list,         \* RelationshipGraph.adjacency_list: table -> set of tables
    relationship_metadata,  \* RelationshipGraph.relationship_metadata: <<t1, t2>> -> record
    iter_order,             \* iteration order of str sets in this process
    config,                 \* SchemaManager configuration (thresholds, limits, flags)
    analyzer,               \* QueryAnalyzer configuration (query and table patterns)
    call,                   \* the last operation called, with its arguments
    ret                     \* what that operation returned (or that it raised)

vars == <<adjacency_list, relationship_metadata, iter_order, config, analyzer, call, ret>>

(***************************************************************************)
(* Generic helpers for Python lists, sets and dicts                        *)
(***************************************************************************)
None == "<None>"

Range(s) == {s[i] : i \in 1..Len(s)}

\* the elements of set S as a list, in the order the list `order` gives them
OrderedBy(order, S) == SelectSeq(order, LAMBDA t : t \in S)

\* all lists without repetition that enumerate the whole of S
Permutations_(S) ==
    {p \in [1..Cardinality(S) -> S] : \A i, j \in 1..Cardinality(S) : p[i] = p[j] => i = j}

\* a slice that keeps the whole list
PrefixAll(s, n) == s

\* s[:n] for n >= 0
Prefix(s, n) == SubSeq(s, 1, IF n < Len(s) THEN n ELSE Len(s))

Max2(a, b) == IF a >= b THEN a ELSE b
Min2(a, b) == IF a <= b THEN a ELSE b

\* all lists over S of length at most n
SeqUpTo(S, n) == UNION {[1..k -> S] : k \in 0..n}

(***************************************************************************)
(* The schema of the repository's tests (simple_test.py, direct_test.py)   *)
(***************************************************************************)
Tables == {"cust", "ord_hdr", "ord_ln", "prd_mstr"}

\* sorted() of table names: Python compares str by code point
Alphabetical == <<"cust", "ord_hdr", "ord_ln", "prd_mstr">>

Sorted(S) == OrderedBy(Alphabetical, S)

IterOrders == Permutations_(Tables)

\* iteration of a str set in this process
IterSet(order, S) == OrderedBy(order, S)

(***************************************************************************)
(* RelationshipGraph                                                       *)
(***************************************************************************)
EmptyDict == [x \in {} |-> {}]

\* dict/defaultdict store: d[k] = v
DictSet(d, k, v) == [x \in (DOMAIN d) \cup {k} |-> IF x = k THEN v ELSE d[x]]

\* schema_manager.py:43-46: create the two adjacency entries when missing
AddKeys(adj, table1, table2) ==
    LET a1 == IF table1 \notin DOMAIN adj THEN DictSet(adj, table1, {}) ELSE adj
    IN  IF table2 \notin DOMAIN a1 THEN DictSet(a1, table2, {}) ELSE a1

\* schema_manager.py:48 only: the edge in one direction (a broken add_relationship)
AddEdgesOneWay(adj, table1, table2) ==
    DictSet(adj, table1, adj[table1] \cup {table2})

\* schema_manager.py:48-49: the edge in both directions
AddEdges(adj, table1, table2) ==
    LET a1 == DictSet(adj, table1, adj[table1] \cup {table2})
    IN  DictSet(a1, table2, a1[table2] \cup {table1})

\* metadata=None, the default of add_relationship
NoMetadata == [none |-> TRUE]

\* schema_manager.py:51-53: metadata stored under both orientations when truthy
AddMetadata(md, table1, table2, metadata) ==
    IF metadata = NoMetadata THEN md
    ELSE DictSet(DictSet(md, <<table1, table2>>, metadata), <<table2, table1>>, metadata)

\* RelationshipGraph.add_relationship as a function of the graph [adj, md]
add_relationship(graph, table1, table2, metadata) ==
    [adj |-> AddEdges(AddKeys(graph.adj, table1, table2), table1, table2),
     md  |-> AddMetadata(graph.md, table1, table2, metadata)]

EmptyGraph == [adj |-> EmptyDict, md |-> EmptyDict]

(***************************************************************************)
(* SchemaManager._build_relationship_graph                                 *)
(*                                                                         *)
(* A relationship string is a list of tokens: "ord_hdr.ct_id" is           *)
(* <<"ord_hdr", ".", "ct_id">>, "ord_hdr" is <<"ord_hdr">>, "" is <<>>.    *)
(***************************************************************************)
Dot == "."

RECURSIVE Join(_)
Join(tokens) == IF tokens = <<>> THEN "" ELSE Head(tokens) \o Join(Tail(tokens))

RECURSIVE BeforeFirstDot(_)
BeforeFirstDot(tokens) ==
    IF tokens = <<>> \/ Head(tokens) = Dot THEN <<>>
    ELSE <<Head(tokens)>> \o BeforeFirstDot(Tail(tokens))

HasDot(relationship) == Dot \in Range(relationship)

\* schema_manager.py:105-108
TargetTable(relationship) ==
    IF HasDot(relationship) THEN Join(BeforeFirstDot(relationship)) ELSE Join(relationship)

\* schema_manager.py:114-119
RelMetadata(table_name, relationship) ==
    [source_table |-> table_name,
     target_table |-> TargetTable(relationship),
     relationship_string |-> Join(relationship),
     type |-> IF HasDot(relationship) THEN "foreign_key" ELSE "direct"]

\* schema_manager.py:103-120: the inner loop over one table's relationships
RECURSIVE BuildRelationships(_, _, _)
BuildRelationships(graph, table_name, relationships) ==
    IF relationships = <<>> THEN graph
    ELSE BuildRelationships(
             add_relationship(graph, table_name, TargetTable(Head(relationships)),
                              RelMetadata(table_name, Head(relationships))),
             table_name, Tail(relationships))

\* schema_manager.py:99-120: the outer loop over table_patterns
RECURSIVE BuildPatterns(_, _)
BuildPatterns(graph, table_patterns) ==
    IF table_patterns = <<>> THEN graph
    ELSE BuildPatterns(
             BuildRelationships(graph, Head(table_patterns).table_name,
                                Head(table_patterns).relationships),
             Tail(table_patterns))

\* schema_manager.py:86-123
build_relationship_graph(table_patterns) == BuildPatterns(EmptyGraph, table_patterns)

(***************************************************************************)
(* SchemaManager._find_relationship_paths                                  *)
(*                                                                         *)
(* The deque holds (current_table, path) with current_table the last table *)
(* of path throughout, so the model's queue holds the paths.               *)
(***************************************************************************)
\* the adjacency list of a SchemaManager is a defaultdict(set),
\* schema_manager.py:92: adjacency_list[k] gives set() for a missing key k
Lookup(adj, k) == IF k \in DOMAIN adj THEN adj[k] ELSE {}

\* ... and stores that set() under k: the adjacency list after the keys K
\* were indexed
AfterIndexing(adj, K) == [k \in (DOMAIN adj) \cup K |-> Lookup(adj, k)]

\* a membership test that lets every table through
InGraphAlways(adj, table1, table2) == TRUE

\* schema_manager.py:130: both tables are keys of the adjacency list
InGraph(adj, table1, table2) == table1 \in DOMAIN adj /\ table2 \in DOMAIN adj

\* a depth guard that is off by one (stops one hop early)
DepthExceededEarly(path, max_depth) == Len(path) >= max_depth

\* a depth guard that never stops the traversal
DepthExceededNever(path, max_depth) == FALSE

\* schema_manager.py:143: len(path) > max_depth
DepthExceeded(path, max_depth) == Len(path) > max_depth

\* schema_manager.py:147: tuple(sorted(path))
PathSignature(path) == Sorted(Range(path))

\* schema_manager.py:153,157: a neighbor that is not the target extends the
\* path only when the path does not hold it already
Extends(path, neighbor, table2) == neighbor # table2 /\ neighbor \notin Range(path)

\* schema_manager.py:152-159: one pass over the neighbors of the path's last
\* table, in the set's iteration order: the completed paths and the new
\* queue entries this pass appends
NeighborPass(adj, order, path, table2) ==
    LET nbrs  == IterSet(order, Lookup(adj, path[Len(path)]))
        found == SelectSeq(nbrs, LAMBDA n : n = table2)
        ext   == SelectSeq(nbrs, LAMBDA n : Extends(path, n, table2))
    IN  [paths |-> [i \in 1..Len(found) |-> Append(path, found[i])],
         queue |-> [i \in 1..Len(ext) |-> Append(path, ext[i])]]

\* schema_manager.py:140-159: the while loop
RECURSIVE BfsLoop(_, _, _, _, _, _, _)
BfsLoop(adj, order, table2, max_depth, queue, visited_paths, paths) ==
    IF queue = <<>> THEN paths
    ELSE LET path == Head(queue)
         IN  IF DepthExceeded(path, max_depth)
             THEN BfsLoop(adj, order, table2, max_depth, Tail(queue), visited_paths, paths)
             ELSE IF PathSignature(path) \in visited_paths
             THEN BfsLoop(adj, order, table2, max_depth, Tail(queue), visited_paths, paths)
             ELSE LET pass == NeighborPass(adj, order, path, table2)
                  IN  BfsLoop(adj, order, table2, max_depth,
                              Tail(queue) \o pass.queue,
                              visited_paths \cup {PathSignature(path)},
                              paths \o pass.paths)

\* list.insert keeping the order of equal-length paths (sorted is stable)
RECURSIVE InsertByLen(_, _)
InsertByLen(sorted, p) ==
    IF sorted = <<>> THEN <<p>>
    ELSE IF Len(Head(sorted)) <= Len(p) THEN <<Head(sorted)>> \o InsertByLen(Tail(sorted), p)
    ELSE <<p>> \o sorted

\* schema_manager.py:162: sorted(paths, key=len)
RECURSIVE SortedByLen(_)
SortedByLen(paths) ==
    IF paths = <<>> THEN <<>>
    ELSE InsertByLen(SortedByLen(SubSeq(paths, 1, Len(paths) - 1)), paths[Len(paths)])

\* schema_manager.py:125-162
find_relationship_paths(adj, order, table1, table2, max_depth) ==
    IF ~InGraph(adj, table1, table2) THEN <<>>
    ELSE IF table1 = table2 THEN << <<table1>> >>
    ELSE SortedByLen(BfsLoop(adj, order, table2, max_depth, << <<table1>> >>, {}, <<>>))

\* schema_manager.py:140-159: the keys the while loop indexes the adjacency
\* list with at line 152 (the last table of every path it expands)
RECURSIVE BfsIndexed(_, _, _, _, _, _, _)
BfsIndexed(adj, order, table2, max_depth, queue, visited_paths, indexed) ==
    IF queue = <<>> THEN indexed
    ELSE LET path == Head(queue)
         IN  IF DepthExceeded(path, max_depth) \/ PathSignature(path) \in visited_paths
             THEN BfsIndexed(adj, order, table2, max_depth, Tail(queue), visited_paths, indexed)
             ELSE BfsIndexed(adj, order, table2, max_depth,
                             Tail(queue) \o NeighborPass(adj, order, path, table2).queue,
                             visited_paths \cup {PathSignature(path)},
                             indexed \cup {path[Len(path)]})

\* schema_manager.py:125-162: the keys a call indexes the adjacency list with
IndexedByFindPaths(adj, order, table1, table2, max_depth) ==
    IF ~InGraph(adj, table1, table2) THEN {}
    ELSE IF table1 = table2 THEN {}
    ELSE BfsIndexed(adj, order, table2, max_depth, << <<table1>> >>, {}, {})

\* the max_depth the completion passes, schema_manager.py:180
CompletionDepth == 3

(***************************************************************************)
(* SchemaManager._complete_table_relationships                             *)
(***************************************************************************)
\* a slice that starts one table late: shortest_path[2:-1]
InteriorLate(shortest_path) ==
    IF Len(shortest_path) <= 3 THEN <<>> ELSE SubSeq(shortest_path, 3, Len(shortest_path) - 1)

\* schema_manager.py:187: shortest_path[1:-1]
Interior(shortest_path) ==
    IF Len(shortest_path) <= 2 THEN <<>> ELSE SubSeq(shortest_path, 2, Len(shortest_path) - 1)

\* a test that takes every table of the path for a new one
NotCompletedAlways(completed_tables, table) == TRUE

\* schema_manager.py:188: if table not in completed_tables
NotCompleted(completed_tables, table) == table \notin completed_tables

\* schema_manager.py:187-190: add the tables of `tables` not yet completed
RECURSIVE AddBridges(_, _)
AddBridges(acc, tables) ==
    IF tables = <<>> THEN acc
    ELSE AddBridges(
             IF NotCompleted(acc.completed, Head(tables))
             THEN [completed |-> acc.completed \cup {Head(tables)},
                   bridges |-> acc.bridges \cup {Head(tables)}]
             ELSE acc,
             Tail(tables))

\* schema_manager.py:178-179: the pairs (i, j), i < j, in loop order
RECURSIVE PairsFrom(_, _, _)
PairsFrom(n, i, j) ==
    IF i > n THEN <<>>
    ELSE IF j > n THEN PairsFrom(n, i + 1, i + 2)
    ELSE <<(<<i, j>>)>> \o PairsFrom(n, i, j + 1)

\* schema_manager.py:180-190: the body of the double loop for one pair
CompletePair(adj, order, acc, table1, table2) ==
    LET paths == find_relationship_paths(adj, order, table1, table2, CompletionDepth)
    IN  IF paths # <<>> THEN AddBridges(acc, Interior(paths[1])) ELSE acc

RECURSIVE CompleteLoop(_, _, _, _, _)
CompleteLoop(adj, order, selected_tables, pairs, acc) ==
    IF pairs = <<>> THEN acc
    ELSE CompleteLoop(adj, order, selected_tables, Tail(pairs),
             CompletePair(adj, order, acc,
                          selected_tables[Head(pairs)[1]], selected_tables[Head(pairs)[2]]))

\* schema_manager.py:164-197: returns (completed_list, bridge_list)
complete_table_relationships(adj, order, enabled, selected_tables) ==
    IF ~enabled \/ Len(selected_tables) <= 1
    THEN [completed |-> selected_tables, bridges |-> <<>>]
    ELSE LET acc == CompleteLoop(adj, order, selected_tables,
                                 PairsFrom(Len(selected_tables), 1, 2),
                                 [completed |-> Range(selected_tables), bridges |-> {}])
         IN  [completed |-> Sorted(acc.completed), bridges |-> Sorted(acc.bridges)]

\* schema_manager.py:178-180: the keys the path finder indexes for the pairs of
\* the completion
IndexedByCompletion(adj, order, enabled, selected_tables) ==
    IF ~enabled \/ Len(selected_tables) <= 1 THEN {}
    ELSE UNION {IndexedByFindPaths(adj, order, selected_tables[p[1]], selected_tables[p[2]],
                                   CompletionDepth) :
                    p \in Range(PairsFrom(Len(selected_tables), 1, 2))}

(***************************************************************************)
(* Confidence of a search hit                                              *)
(***************************************************************************)
\* 1.0 on the selectors' confidence scale
ConfOne == 24000

\* 1.0 on the raw-score scale (scores are in hundredths)
RawOne == 100

\* the width of a band, 0.2, on the raw-score scale
BandWidth == RawOne \div 5

\* base + ((raw - lo) / 0.2) * span, with base and span in tenths of ConfOne
Band(raw_score, lo, base, span) ==
    (base * ConfOne) \div 10 + ((raw_score - lo) * ((span * ConfOne) \div 10)) \div BandWidth

\* schema_manager.py:399-415 (no clamp below 0 or above 1.0)
calculate_column_confidence(raw_score) ==
    IF raw_score >= 80 THEN Band(raw_score, 80, 9, 1)
    ELSE IF raw_score >= 60 THEN Band(raw_score, 60, 7, 2)
    ELSE IF raw_score >= 40 THEN Band(raw_score, 40, 4, 3)
    ELSE IF raw_score >= 20 THEN Band(raw_score, 20, 1, 3)
    ELSE Band(raw_score, 0, 0, 1)

\* schema_manager.py:417-419
calculate_table_confidence(raw_score) == calculate_column_confidence(raw_score)

(***************************************************************************)
(* QueryAnalyzer.analyze_query                                             *)
(*                                                                         *)
(* A query is a list of words.  `keyword in query` is Python's substring   *)
(* test; on the vocabulary below a keyword occurs in the query when it is  *)
(* one of its words or the stem of one.                                    *)
(***************************************************************************)
\* str.lower on the vocabulary
LowerWord(w) ==
    IF w = "Purchased" THEN "purchased"
    ELSE IF w = "Customers" THEN "customers"
    ELSE w

\* query_analyzer.py:121
Lower(query) == [i \in 1..Len(query) |-> LowerWord(query[i])]

Stems == {<<"purchase", "purchased">>, <<"customer", "customers">>, <<"product", "products">>}

\* keyword in query
Occurs(keyword, query) ==
    \E i \in 1..Len(query) : keyword = query[i] \/ <<keyword, query[i]>> \in Stems

CountOccurring(keywords, query) ==
    Cardinality({i \in 1..Len(keywords) : Occurs(keywords[i], query)})

\* a pattern confidence without the cap at 1.0
pattern_confidence_uncapped(query, pattern) ==
    IF pattern.keywords = <<>> THEN 0
    ELSE (CountOccurring(pattern.keywords, query) * ConfOne) \div Len(pattern.keywords)
             + pattern.confidence_boost

\* query_analyzer.py:158-166, on the ConfOne scale; confidence_boost is
\* given on that scale too
calculate_pattern_confidence(query, pattern) ==
    IF pattern.keywords = <<>> THEN 0
    ELSE Min2((CountOccurring(pattern.keywords, query) * ConfOne) \div Len(pattern.keywords)
                  + pattern.confidence_boost,
              ConfOne)

\* query_analyzer.py:124-125: best_pattern = None, best_confidence = 0.0
NoBestPattern == [found |-> FALSE, pattern |-> None, confidence |-> 0]

ImprovesOrTies(confidence, best_confidence) == confidence >= best_confidence

\* query_analyzer.py:129: if confidence > best_confidence
Improves(confidence, best_confidence) == confidence > best_confidence

\* query_analyzer.py:127-131: the best pattern so far
RECURSIVE BestPattern(_, _, _)
BestPattern(query, patterns, best) ==
    IF patterns = <<>> THEN best
    ELSE LET confidence == calculate_pattern_confidence(query, Head(patterns))
         IN  BestPattern(query, Tail(patterns),
                 IF Improves(confidence, best.confidence)
                 THEN [found |-> TRUE, pattern |-> Head(patterns), confidence |-> confidence]
                 ELSE best)

\* query_analyzer.py:168-173
matches_table_pattern(query, pattern) ==
    IF pattern.keywords = <<>> THEN FALSE
    ELSE \E i \in 1..Len(pattern.keywords) : Occurs(pattern.keywords[i], query)

\* query_analyzer.py:175-180
excluded_by_pattern(query, pattern) ==
    IF pattern.exclusion_patterns = <<>> THEN FALSE
    ELSE \A i \in 1..Len(pattern.exclusion_patterns) :
             ~Occurs(pattern.exclusion_patterns[i], query)

\* query_analyzer.py:143-147: the loop over the table patterns
RECURSIVE ApplyTablePatterns(_, _, _)
ApplyTablePatterns(query, table_patterns, acc) ==
    IF table_patterns = <<>> THEN acc
    ELSE LET tp == Head(table_patterns)
         IN  ApplyTablePatterns(query, Tail(table_patterns),
                 IF matches_table_pattern(query, tp)
                 THEN [acc EXCEPT !.suggested = @ \cup {tp.table_name}]
                 ELSE IF excluded_by_pattern(query, tp)
                 THEN [acc EXCEPT !.excluded = @ \cup {tp.table_name}]
                 ELSE acc)

\* query_analyzer.py:182-186: words longer than two characters
extract_keywords(query) == SelectSeq(query, LAMBDA w : Len(w) > 2)

\* query_analyzer.py:111-156.  an is the analyzer: [query_patterns, table_patterns],
\* the values of the two dicts in insertion order
analyze_query(an, query) ==
    LET query_lower == Lower(query)
        best == BestPattern(query_lower, an.query_patterns, NoBestPattern)
        from_best ==
            IF best.found
            THEN [suggested |-> Range(best.pattern.required_tables)
                                    \cup Range(best.pattern.optional_tables),
                  excluded  |-> Range(best.pattern.excluded_tables)]
            ELSE [suggested |-> {}, excluded |-> {}]
        sets == ApplyTablePatterns(query_lower, an.table_patterns, from_best)
    IN  [query_type |-> IF best.found THEN best.pattern.pattern_id ELSE "generic",
         keywords |-> extract_keywords(query_lower),
         confidence |-> best.confidence,
         suggested_tables |-> sets.suggested,
         excluded_tables |-> sets.excluded,
         required_relationships |-> <<>>]

(***************************************************************************)
(* SchemaManager.select_tables and its stages                              *)
(*                                                                         *)
(* A search hit is [table, column, score].  semantic_results is            *)
(* [columns, tables], two lists of hits.                                   *)
(***************************************************************************)
EmptyScores == [keys |-> <<>>, val |-> EmptyDict]

\* d[k] = v on an insertion-ordered dict
Put(d, k, v) ==
    [keys |-> IF k \in Range(d.keys) THEN d.keys ELSE Append(d.keys, k),
     val  |-> DictSet(d.val, k, v)]

Has(d, k) == k \in Range(d.keys)

\* schema_manager.py:332-340: the loop over the column hits
RECURSIVE ExtractColumns(_, _)
ExtractColumns(tables_scores, hits) ==
    IF hits = <<>> THEN tables_scores
    ELSE LET table == Head(hits).table
             score == calculate_column_confidence(Head(hits).score)
         IN  ExtractColumns(
                 IF table = None THEN tables_scores
                 ELSE IF ~Has(tables_scores, table) THEN Put(tables_scores, table, score)
                 ELSE Put(tables_scores, table, Max2(tables_scores.val[table], score)),
                 Tail(hits))

\* schema_manager.py:343-351: the loop over the table hits
RECURSIVE ExtractTables(_, _)
ExtractTables(tables_scores, hits) ==
    IF hits = <<>> THEN tables_scores
    ELSE LET table == Head(hits).table
             score == calculate_table_confidence(Head(hits).score)
         IN  ExtractTables(
                 IF table = None THEN tables_scores
                 ELSE IF ~Has(tables_scores, table) THEN Put(tables_scores, table, score)
                 ELSE Put(tables_scores, table, (tables_scores.val[table] + score) \div 2),
                 Tail(hits))

\* schema_manager.py:326-353
extract_tables_from_semantic_results(semantic_results) ==
    ExtractTables(ExtractColumns(EmptyScores, semantic_results.columns), semantic_results.tables)

\* schema_manager.py:355-363: a dict comprehension over tables_scores.items()
filter_by_confidence(tables_scores, min_confidence) ==
    LET keys == SelectSeq(tables_scores.keys,
                          LAMBDA t : tables_scores.val[t] >= min_confidence)
    IN  [keys |-> keys, val |-> [k \in Range(keys) |-> tables_scores.val[k]]]

\* Optional[Set[str]]: [given |-> FALSE] is None, [given |-> TRUE, tables |-> S] is S
NoTables == [given |-> FALSE, tables |-> {}]

SomeTables(S) == [given |-> TRUE, tables |-> S]

\* `if available_tables`: None and the empty set are both falsy
Truthy(available_tables) == available_tables.given /\ available_tables.tables # {}

\* schema_manager.py:379
NotAvailable(available_tables, table) ==
    IF Truthy(available_tables) THEN table \notin available_tables.tables ELSE FALSE

\* the boost of schema_manager.py:385: 0.1, capped at 1.0
Boost == ConfOne \div 10

\* schema_manager.py:372-388: the loop over the scored tables
RECURSIVE FilterLoop(_, _, _, _, _)
FilterLoop(tables_scores, keys, context, available_tables, filtered_tables) ==
    IF keys = <<>> THEN filtered_tables
    ELSE LET table == Head(keys)
             score == tables_scores.val[table]
         IN  FilterLoop(tables_scores, Tail(keys), context, available_tables,
                 IF table \in context.excluded_tables THEN filtered_tables
                 ELSE IF NotAvailable(available_tables, table) THEN filtered_tables
                 ELSE IF table \in context.suggested_tables
                 THEN Put(filtered_tables, table, Min2(score + Boost, ConfOne))
                 ELSE Put(filtered_tables, table, score))

\* schema_manager.py:391-395: the loop over context.suggested_tables, a set
RECURSIVE RequiredLoop(_, _, _, _)
RequiredLoop(required, available_tables, min_confidence, filtered_tables) ==
    IF required = <<>> THEN filtered_tables
    ELSE RequiredLoop(Tail(required), available_tables, min_confidence,
             IF ~Has(filtered_tables, Head(required))
                /\ ~NotAvailable(available_tables, Head(required))
             THEN Put(filtered_tables, Head(required), min_confidence)
             ELSE filtered_tables)

\* schema_manager.py:365-397
apply_context_filtering(order, tables_scores, context, available_tables, min_confidence) ==
    RequiredLoop(IterSet(order, context.suggested_tables), available_tables, min_confidence,
                 FilterLoop(tables_scores, tables_scores.keys, context, available_tables,
                            EmptyScores))

\* a membership test that finds no table in the graph
IsKeyNever(adj, table1) == FALSE

\* schema_manager.py:456: table1 in adjacency_list
IsKey(adj, table1) == table1 \in DOMAIN adj

\* schema_manager.py:456-457: adjacency_list[table1] is indexed only after the
\* test of line 456 (`and` does not evaluate its right side otherwise)
IndexedByInfer(adj, selected_tables) ==
    {selected_tables[p[1]] : p \in {q \in Range(PairsFrom(Len(selected_tables), 1, 2)) :
                                       IsKey(adj, selected_tables[q[1]])}}

\* schema_manager.py:444-473: the direct relationships, pairs (i, j) with i < j.
\* The loop of lines 463-471 runs over context.required_relationships, which
\* analyze_query always leaves empty (query_analyzer.py:188-197)
infer_table_relationships(adj, selected_tables) ==
    LET pairs == PairsFrom(Len(selected_tables), 1, 2)
        related == SelectSeq(pairs, LAMBDA p :
                       /\ IsKey(adj, selected_tables[p[1]])
                       /\ selected_tables[p[2]] \in Lookup(adj, selected_tables[p[1]]))
    IN  [i \in 1..Len(related) |->
            <<selected_tables[related[i][1]], selected_tables[related[i][2]]>>]

\* schema_manager.py:244-246: the bridge tables get the minimum confidence
RECURSIVE PutAll(_, _, _)
PutAll(d, keys, v) ==
    IF keys = <<>> THEN d ELSE PutAll(Put(d, Head(keys), v), Tail(keys), v)

\* the positional parameters of _generate_table_selection_reasoning after
\* self, schema_manager.py:476-483: query, context, semantic_tables,
\* filtered_tables, selected_tables, initial_tables, completed_tables,
\* bridge_tables_added
ReasoningParameters == 8

\* the arguments select_tables passes, schema_manager.py:252-255
ReasoningArguments(query, context, semantic_tables, filtered_tables, initial_tables, completed_tables, bridge_tables_added) ==
    <<query, context, semantic_tables, filtered_tables,
      initial_tables, completed_tables, bridge_tables_added>>

\* schema_manager.py:485-501: the parts joined by " | "; the two optional
\* parts depend on context.excluded_tables and bridge_tables_added
ReasoningText(context, bridge_tables_added) ==
    <<"Query Type", "Semantic Search Found", "After Confidence Filtering",
      "Context Suggested", "Context Excluded", "Initial Selection", "Completed Selection">>
    \o (IF context.excluded_tables # {} THEN <<"Excluded Tables">> ELSE <<>>)
    \o (IF bridge_tables_added # <<>> THEN <<"Bridge Tables Added">> ELSE <<>>)

\* the call of schema_manager.py:252: Python binds the arguments to the
\* parameters and raises TypeError when a required one is left without
generate_table_selection_reasoning(args) ==
    IF Len(args) # ReasoningParameters
    THEN [raised |-> "TypeError", value |-> None]
    ELSE [raised |-> None, value |-> ReasoningText(args[2], args[8])]

\* schema_manager.py:199-264.  mgr is the manager's state
\* [adj, order, config, analyzer]; the outcome is [raised, result, locals]
select_tables(mgr, query, semantic_results, available_tables) ==
    LET context == analyze_query(mgr.analyzer, query)
        semantic_tables == extract_tables_from_semantic_results(semantic_results)
        high_confidence_tables == filter_by_confidence(semantic_tables, mgr.config.min_confidence)
        filtered_tables ==
            IF mgr.config.enable_context_filtering
            THEN apply_context_filtering(mgr.order, high_confidence_tables, context,
                                         available_tables, mgr.config.min_confidence)
            ELSE high_confidence_tables
        initial_tables == Prefix(filtered_tables.keys, mgr.config.max_tables)
        completion == complete_table_relationships(
                          mgr.adj, mgr.order, mgr.config.enable_relationship_completion,
                          initial_tables)
        final_confidence_scores ==
            PutAll(filtered_tables, completion.bridges, mgr.config.min_confidence)
        relationships == infer_table_relationships(mgr.adj, completion.completed)
        reasoning == generate_table_selection_reasoning(
                         ReasoningArguments(query, context, semantic_tables, filtered_tables,
                                            initial_tables, completion.completed,
                                            completion.bridges))
        locals == [context |-> context,
                   semantic_tables |-> semantic_tables,
                   filtered_tables |-> filtered_tables,
                   initial_tables |-> initial_tables,
                   completed_tables |-> completion.completed,
                   bridge_tables_added |-> completion.bridges,
                   final_confidence_scores |-> final_confidence_scores,
                   relationships |-> relationships]
    IN  IF reasoning.raised # None
        THEN [raised |-> reasoning.raised, result |-> None, locals |-> locals]
        ELSE [raised |-> None,
              result |-> [selected_tables |-> completion.completed,
                          confidence_scores |-> final_confidence_scores,
                          relationships |-> relationships,
                          excluded_tables |-> IterSet(mgr.order, context.excluded_tables),
                          selection_reasoning |-> reasoning.value,
                          bridge_tables_added |-> completion.bridges],
              locals |-> locals]

\* schema_manager.py:240, 249: the keys a select_tables call with the given
\* outcome indexed the adjacency list with (both steps precede line 252)
IndexedBySelectTables(mgr, outcome) ==
    IndexedByCompletion(mgr.adj, mgr.order, mgr.config.enable_relationship_completion,
                        outcome.locals.initial_tables)
    \cup IndexedByInfer(mgr.adj, outcome.locals.completed_tables)

(***************************************************************************)
(* SchemaManager.select_columns                                            *)
(***************************************************************************)
\* a walk that never looks at the running count
UnderCapAlways(count, max_columns_per_table) == TRUE

\* schema_manager.py:438: table_column_count[table] < self.max_columns_per_table
UnderCap(count, max_columns_per_table) == count < max_columns_per_table

\* sorted(..., reverse=True) is stable: equal confidences keep their order
RECURSIVE InsertByConfidence(_, _)
InsertByConfidence(sorted, col) ==
    IF sorted = <<>> THEN <<col>>
    ELSE IF calculate_column_confidence(Head(sorted).score)
                >= calculate_column_confidence(col.score)
    THEN <<Head(sorted)>> \o InsertByConfidence(Tail(sorted), col)
    ELSE <<col>> \o sorted

\* schema_manager.py:429-433
RECURSIVE SortedByConfidence(_)
SortedByConfidence(columns) ==
    IF columns = <<>> THEN <<>>
    ELSE InsertByConfidence(SortedByConfidence(SubSeq(columns, 1, Len(columns) - 1)),
                            columns[Len(columns)])

\* schema_manager.py:435-440: the walk over the sorted columns
RECURSIVE DistributeLoop(_, _, _, _, _)
DistributeLoop(sorted_columns, selected_tables, max_columns_per_table, count, distributed) ==
    IF sorted_columns = <<>> THEN distributed
    ELSE LET column == Head(sorted_columns)
             table == column.table
             take == table \in Range(selected_tables)
                     /\ UnderCap(count[table], max_columns_per_table)
         IN  DistributeLoop(Tail(sorted_columns), selected_tables, max_columns_per_table,
                 IF take THEN [count EXCEPT ![table] = @ + 1] ELSE count,
                 IF take THEN Append(distributed, column) ELSE distributed)

\* the walk over the columns as they were given, without the sort
distribute_unsorted(columns, selected_tables, max_columns_per_table) ==
    DistributeLoop(columns, selected_tables, max_columns_per_table,
                   [t \in Range(selected_tables) |-> 0], <<>>)

\* schema_manager.py:421-442
distribute_columns_across_tables(columns, selected_tables, max_columns_per_table) ==
    DistributeLoop(SortedByConfidence(columns), selected_tables, max_columns_per_table,
                   [t \in Range(selected_tables) |-> 0], <<>>)

\* schema_manager.py:303-306: keys "table.column"
ColumnKey(col) == col.table \o Dot \o col.column

\* schema_manager.py:309-312
RECURSIVE TableDistribution(_, _)
TableDistribution(columns, dist) ==
    IF columns = <<>> THEN dist
    ELSE TableDistribution(Tail(columns),
             DictSet(dist, Head(columns).table,
                     (IF Head(columns).table \in DOMAIN dist
                      THEN dist[Head(columns).table] ELSE 0) + 1))

\* schema_manager.py:266-324.  _generate_column_selection_reasoning is called
\* with the four arguments it declares (lines 315-317, 503-507)
select_columns(mgr, query, semantic_results, selected_tables) ==
    LET all_columns == semantic_results.columns
        high_confidence_columns ==
            SelectSeq(all_columns, LAMBDA col :
                calculate_column_confidence(col.score) >= mgr.config.min_confidence)
        relevant_columns ==
            SelectSeq(high_confidence_columns, LAMBDA col : col.table \in Range(selected_tables))
        distributed_columns ==
            distribute_columns_across_tables(relevant_columns, selected_tables,
                                             mgr.config.max_columns_per_table)
    IN  [raised |-> None,
         result |-> [selected_columns |-> distributed_columns,
                     confidence_scores |->
                         [k \in {ColumnKey(distributed_columns[i]) :
                                     i \in 1..Len(distributed_columns)} |->
                             LET i == CHOOSE j \in 1..Len(distributed_columns) :
                                          /\ ColumnKey(distributed_columns[j]) = k
                                          /\ \A l \in 1..Len(distributed_columns) :
                                                 ColumnKey(distributed_columns[l]) = k => l <= j
                             IN  calculate_column_confidence(distributed_columns[i].score)],
                     table_distribution |-> TableDistribution(distributed_columns, EmptyDict),
                     selection_reasoning |->
                         <<"Total Columns Found", "High Confidence Columns",
                           "Selected Tables", "Max Columns Per Table">>]]

(***************************************************************************)
(* main.normalize_score                                                    *)
(***************************************************************************)
\* one percent on normalize_score's 0..100 scale
PctOne == 10

\* base + ((score - lo) / 0.2) * span, base and span in percent
PctBand(score, lo, base, span) ==
    base * PctOne + ((score - lo) * (span * PctOne)) \div BandWidth

\* a normalizer without the clamp of negative scores to 0
ClampNegativeNot(score) == score

\* main.py:228-230: negative scores are clamped to 0
ClampNegative(score) == IF score < 0 THEN 0 ELSE score

\* a top band without the cap for scores above 1.0
TopBandUncapped(score) == PctBand(score, 80, 90, 10)

\* main.py:233-238: the top band, 100 for scores above 1.0
TopBand(score) == IF score > RawOne THEN 100 * PctOne ELSE PctBand(score, 80, 90, 10)

\* a high band that starts ten percent too low
HighBandLow(score) == PctBand(score, 60, 60, 20)

\* main.py:238-240: 0.6 <= score < 0.8 gives 70..90
HighBand(score) == PctBand(score, 60, 70, 20)

\* a medium band that starts five percent too high
MediumBandHigh(score) == PctBand(score, 40, 45, 30)

\* main.py:241-243: 0.4 <= score < 0.6 gives 40..70
MediumBand(score) == PctBand(score, 40, 40, 30)

\* main.py:244-246: 0.2 <= score < 0.4 gives 10..40
LowBand(score) == PctBand(score, 20, 10, 30)

\* main.py:247-249: score < 0.2 gives 0..10
BottomBand(score) == PctBand(score, 0, 0, 10)

\* main.py:213-249 (min_score and max_score are not used)
normalize_score(raw_score) ==
    LET score == ClampNegative(raw_score)
    IN  IF score >= 80 THEN TopBand(score)
        ELSE IF score >= 60 THEN HighBand(score)
        ELSE IF score >= 40 THEN MediumBand(score)
        ELSE IF score >= 20 THEN LowBand(score)
        ELSE BottomBand(score)

(***************************************************************************)
(* Configurations                                                          *)
(***************************************************************************)
\* "table.column"
Fk(table, column) == <<table, Dot, column>>

\* a table_patterns entry as _build_relationship_graph reads it
Decl(table_name, relationships) == [table_name |-> table_name, relationships |-> relationships]

\* simple_test.py:11-37 and direct_test.py:31-37: cust - ord_hdr - ord_ln - prd_mstr
ChainPatterns ==
    <<Decl("cust", <<Fk("ord_hdr", "ct_id")>>),
      Decl("ord_hdr", <<Fk("cust", "ct_id"), Fk("ord_ln", "ord_id")>>),
      Decl("ord_ln", <<Fk("ord_hdr", "ord_id"), Fk("prd_mstr", "prd_id")>>),
      Decl("prd_mstr", <<Fk("ord_ln", "prd_id")>>)>>

\* two routes of equal length between cust and prd_mstr, declared one way only
DiamondPatterns ==
    <<Decl("cust", <<(<<"ord_hdr">>), (<<"ord_ln">>)>>),
      Decl("prd_mstr", <<Fk("ord_hdr", "prd_id"), Fk("ord_ln", "prd_id")>>)>>

\* SchemaManager.__init__, schema_manager.py:77-81: the defaults
DefaultMinConfidence == ConfOne \div 2
DefaultMaxTables == 4
DefaultMaxColumns == 3

ManagerConfig(min_confidence, max_tables, max_columns_per_table, enable_context_filtering, enable_relationship_completion, table_patterns) ==
    [min_confidence |-> min_confidence,
     max_tables |-> max_tables,
     max_columns_per_table |-> max_columns_per_table,
     enable_context_filtering |-> enable_context_filtering,
     enable_relationship_completion |-> enable_relationship_completion,
     table_patterns |-> table_patterns]

\* SchemaManager(config={'table_patterns': ...}): everything else by default
DefaultConfig(table_patterns) ==
    ManagerConfig(DefaultMinConfidence, DefaultMaxTables, DefaultMaxColumns, TRUE, TRUE,
                  table_patterns)

QueryPattern(pattern_id, keywords, required_tables, optional_tables, excluded_tables, confidence_boost) ==
    [pattern_id |-> pattern_id, keywords |-> keywords, required_tables |-> required_tables,
     optional_tables |-> optional_tables, excluded_tables |-> excluded_tables,
     confidence_boost |-> confidence_boost]

\* QueryAnalyzer._load_default_config, query_analyzer.py:90-102
DefaultAnalyzer ==
    [query_patterns |-> <<QueryPattern("generic_search", <<>>, <<>>, <<>>, <<>>, 0)>>,
     table_patterns |-> <<>>]

\* no call is in progress: the manager is constructed and its caller holds
\* no result
Ready == [op |-> "ready"]

\* the caller has taken the result of the last call; the manager is as the
\* call left it
Return ==
    /\ call # Ready
    /\ call' = Ready
    /\ ret' = None
    /\ UNCHANGED <<adjacency_list, relationship_metadata, iter_order, config, analyzer>>

\* the manager as the operations see it
Mgr == [adj |-> adjacency_list, order |-> iter_order, config |-> config, analyzer |-> analyzer]

(***************************************************************************)
(* SpecGraph: a RelationshipGraph under add_relationship, and the graph a  *)
(* new SchemaManager builds                                                *)
(***************************************************************************)
\* a declaration whose relationship string is empty: "relationships": [""]
EmptyRelationshipPatterns == <<Decl("cust", <<(<<>>)>>)>>

\* a declaration without 'table_name': table_config.get('table_name') is None
NoTableNamePatterns == <<Decl(None, <<Fk("cust", "ct_id")>>)>>

GraphConfigs ==
    {<<>>, ChainPatterns, DiamondPatterns, EmptyRelationshipPatterns, NoTableNamePatterns}

\* direct_test.py:19: RelationshipGraph(adjacency_list={}, relationship_metadata={})
InitGraph ==
    /\ adjacency_list = EmptyDict
    /\ relationship_metadata = EmptyDict
    /\ iter_order = Alphabetical
    /\ config = DefaultConfig(<<>>)
    /\ analyzer = DefaultAnalyzer
    /\ call = [op |-> "RelationshipGraph"]
    /\ ret = None

\* graph.add_relationship(table1, table2), direct_test.py:22-24
AddRelationship(table1, table2) ==
    LET g == add_relationship([adj |-> adjacency_list, md |-> relationship_metadata],
                              table1, table2, NoMetadata)
    IN  /\ adjacency_list' = g.adj
        /\ relationship_metadata' = g.md
        /\ call' = [op |-> "add_relationship", table1 |-> table1, table2 |-> table2]
        /\ ret' = None
        /\ UNCHANGED <<iter_order, config, analyzer>>

\* SchemaManager(config={'table_patterns': table_patterns}), schema_manager.py:62-84
Construct(table_patterns) ==
    LET g == build_relationship_graph(table_patterns)
    IN  /\ adjacency_list' = g.adj
        /\ relationship_metadata' = g.md
        /\ config' = DefaultConfig(table_patterns)
        /\ call' = [op |-> "SchemaManager"]
        /\ ret' = None
        /\ UNCHANGED <<iter_order, analyzer>>

NextGraph ==
    \/ \E table1, table2 \in Tables : AddRelationship(table1, table2)
    \/ \E table_patterns \in GraphConfigs : Construct(table_patterns)

SpecGraph == InitGraph /\ [][NextGraph]_vars

(***************************************************************************)
(* SpecPaths: the path finder and the relationship completion on every     *)
(* graph over Tables                                                       *)
(***************************************************************************)
\* the unordered pairs of tables, a table with itself included
TablePairs == {p \in Tables \X Tables : \E i, j \in 1..Len(Alphabetical) :
                   i <= j /\ p = <<Alphabetical[i], Alphabetical[j]>>}

\* the declarations that give exactly the edges E: every edge is declared
\* once, by its alphabetically first table, in foreign-key form
DeclsOf(E, table) ==
    LET targets == SelectSeq(Alphabetical, LAMBDA u : <<table, u>> \in E)
    IN  [i \in 1..Len(targets) |-> Fk(targets[i], "id")]

PatternsOf(E) == [i \in 1..Len(Alphabetical) |-> Decl(Alphabetical[i], DeclsOf(E, Alphabetical[i]))]

Reverse(s) == [i \in 1..Len(s) |-> s[Len(s) + 1 - i]]

\* renaming the tables maps a graph with one iteration order to another graph
\* with another order, so all graphs under two opposite orders cover the
\* tie-breaks of the traversal
PathOrders == {Alphabetical, Reverse(Alphabetical)}

\* the largest max_depth asked of the path finder
MaxDepth == 3

\* the longest selected_tables list given to the completion
MaxSelected == 3

\* the lists of at most n distinct tables
DistinctLists(n) == {l \in SeqUpTo(Tables, n) : \A i, j \in 1..Len(l) : l[i] = l[j] => i = j}

InitPaths ==
    \E E \in SUBSET TablePairs :
        LET g == build_relationship_graph(PatternsOf(E))
        IN  /\ adjacency_list = g.adj
            /\ relationship_metadata = g.md
            /\ iter_order \in PathOrders
            /\ config = DefaultConfig(PatternsOf(E))
            /\ analyzer = DefaultAnalyzer
            /\ call = Ready
            /\ ret = None

\* schema_manager._find_relationship_paths(table1, table2, max_depth)
FindPaths(table1, table2, max_depth) ==
    /\ call = Ready
    /\ call' = [op |-> "find_relationship_paths", table1 |-> table1, table2 |-> table2,
                max_depth |-> max_depth]
    /\ ret' = find_relationship_paths(adjacency_list, iter_order, table1, table2, max_depth)
    /\ adjacency_list' = AfterIndexing(adjacency_list,
            IndexedByFindPaths(adjacency_list, iter_order, table1, table2, max_depth))
    /\ UNCHANGED <<relationship_metadata, iter_order, config, analyzer>>

\* schema_manager._complete_table_relationships(selected_tables)
CompleteRelationships(selected_tables) ==
    /\ call = Ready
    /\ call' = [op |-> "complete_table_relationships", selected_tables |-> selected_tables]
    /\ ret' = complete_table_relationships(adjacency_list, iter_order,
                  config.enable_relationship_completion, selected_tables)
    /\ adjacency_list' = AfterIndexing(adjacency_list,
            IndexedByCompletion(adjacency_list, iter_order,
                                config.enable_relationship_completion, selected_tables))
    /\ UNCHANGED <<relationship_metadata, iter_order, config, analyzer>>

NextPaths ==
    \/ \E table1, table2 \in Tables, max_depth \in 0..MaxDepth :
           FindPaths(table1, table2, max_depth)
    \/ \E selected_tables \in DistinctLists(MaxSelected) : CompleteRelationships(selected_tables)
    \/ Return

SpecPaths == InitPaths /\ [][NextPaths]_vars

(***************************************************************************)
(* SpecNorm: normalize_score on a range of raw scores                      *)
(***************************************************************************)
\* raw scores from -MaxBelow to RawOne + MaxAbove hundredths
MaxBelow == 500
MaxAbove == 50

RawScores == (0 - MaxBelow)..(RawOne + MaxAbove)

InitNorm ==
    /\ adjacency_list = EmptyDict
    /\ relationship_metadata = EmptyDict
    /\ iter_order = Alphabetical
    /\ config = DefaultConfig(<<>>)
    /\ analyzer = DefaultAnalyzer
    /\ call = [op |-> "import"]
    /\ ret = None

\* normalize_score(score)
Normalize(score) ==
    /\ call' = [op |-> "normalize_score", score |-> score]
    /\ ret' = normalize_score(score)
    /\ UNCHANGED <<adjacency_list, relationship_metadata, iter_order, config, analyzer>>

NextNorm == \E score \in RawScores : Normalize(score)

SpecNorm == InitNorm /\ [][NextNorm]_vars

(***************************************************************************)
(* Spec: SchemaManager.select_tables on the schemas of the tests           *)
(***************************************************************************)
\* the query of the scenario: "how many products purchased by customers"
ScenarioQuery == <<"how", "many", "products", "purchased", "by", "customers">>

Queries == {ScenarioQuery}

\* one query pattern, matched by the scenario query, that suggests and
\* excludes the given tables
PurchaseAnalyzer(required_tables, excluded_tables) ==
    [query_patterns |->
         <<QueryPattern("purchase", <<"purchase">>, required_tables, <<>>, excluded_tables, 0)>>,
     table_patterns |-> <<>>]

\* suggested and excluded tables: none; two suggested; one excluded; one
\* suggested; one both suggested and excluded
SelectAnalyzers ==
    {DefaultAnalyzer,
     PurchaseAnalyzer(<<"ord_hdr", "ord_ln">>, <<>>),
     PurchaseAnalyzer(<<>>, <<"ord_hdr">>),
     PurchaseAnalyzer(<<"cust">>, <<>>),
     PurchaseAnalyzer(<<"cust">>, <<"cust">>)}

SelectSchemas == {ChainPatterns, DiamondPatterns}

\* min_confidence_threshold: 0.15 (the scenario's) and 0.40
MinConfidences == {(15 * ConfOne) \div 100, (40 * ConfOne) \div 100}

\* the largest max_tables_per_query configured
MaxTablesLimit == 2

\* the raw scores of the scenario's hits: 0.38 and 0.42
HitScores == {38, 42}

\* the search service returns at most this many hits in all
MaxHits == 2

Hit(table, score) == [table |-> table, column |-> "id", score |-> score]

\* the tables the search service finds
HitTables == {"cust", "ord_hdr", "prd_mstr"}

Hits == {Hit(t, r) : t \in HitTables, r \in HitScores}

\* at most MaxHits hits, at most one of them a table-level hit
SearchResults ==
    {sr \in {[columns |-> c, tables |-> t] :
                 c \in SeqUpTo(Hits, MaxHits), t \in SeqUpTo(Hits, 1)} :
         Len(sr.columns) + Len(sr.tables) <= MaxHits}

AvailableTables == {NoTables, SomeTables({}), SomeTables({"cust", "prd_mstr"})}

\* SchemaManager(query_analyzer, config), schema_manager.py:62-84
Init ==
    \E table_patterns \in SelectSchemas, min_confidence \in MinConfidences,
       max_tables \in 1..MaxTablesLimit, filtering \in BOOLEAN, completion \in BOOLEAN :
        LET g == build_relationship_graph(table_patterns)
        IN  /\ adjacency_list = g.adj
            /\ relationship_metadata = g.md
            /\ iter_order \in PathOrders
            /\ config = ManagerConfig(min_confidence, max_tables, DefaultMaxColumns,
                                      filtering, completion, table_patterns)
            /\ analyzer \in SelectAnalyzers
            /\ call = Ready
            /\ ret = None

\* schema_manager.select_tables(query, semantic_results, available_tables)
SelectTables(query, semantic_results, available_tables) ==
    /\ call = Ready
    /\ call' = [op |-> "select_tables", query |-> query,
                semantic_results |-> semantic_results,
                available_tables |-> available_tables, run |-> 1, first |-> None]
    /\ ret' = select_tables(Mgr, query, semantic_results, available_tables)
    /\ adjacency_list' = AfterIndexing(adjacency_list, IndexedBySelectTables(Mgr, ret'))
    /\ UNCHANGED <<relationship_metadata, iter_order, config, analyzer>>

\* the same call once more; the caller keeps the first outcome to compare
SelectTablesAgain ==
    /\ call.op = "select_tables"
    /\ call.run = 1
    /\ call' = [call EXCEPT !.run = 2, !.first = ret]
    /\ ret' = select_tables(Mgr, call.query, call.semantic_results, call.available_tables)
    /\ adjacency_list' = AfterIndexing(adjacency_list, IndexedBySelectTables(Mgr, ret'))
    /\ UNCHANGED <<relationship_metadata, iter_order, config, analyzer>>

\* the process is started again on the same configuration: the manager is
\* built anew from it and Python hashes the table names anew, so the str sets
\* iterate in another order
Restart(order) ==
    /\ call = Ready \/ (call.op = "select_tables" /\ call.run = 1)
    /\ order # iter_order
    /\ iter_order' = order
    /\ LET g == build_relationship_graph(config.table_patterns)
       IN  /\ adjacency_list' = g.adj
           /\ relationship_metadata' = g.md
    /\ UNCHANGED <<config, analyzer, call, ret>>

Next ==
    \/ \E query \in Queries, semantic_results \in SearchResults,
          available_tables \in AvailableTables :
           SelectTables(query, semantic_results, available_tables)
    \/ Return

Spec == Init /\ [][Next]_vars

(***************************************************************************)
(* SpecRuns: the same select_tables call made twice, in one process or in  *)
(* two                                                                     *)
(***************************************************************************)
InitRuns == Init /\ config.min_confidence = (15 * ConfOne) \div 100

NextRuns ==
    \/ \E query \in Queries, columns \in SeqUpTo(Hits, MaxHits) :
           SelectTables(query, [columns |-> columns, tables |-> <<>>], NoTables)
    \/ SelectTablesAgain
    \/ \E order \in PathOrders : Restart(order)
    \/ Return

SpecRuns == InitRuns /\ [][NextRuns]_vars

(***************************************************************************)
(* SpecColumns: SchemaManager.select_columns                               *)
(***************************************************************************)
\* the largest max_columns_per_table configured
MaxColumnsLimit == 2

\* the longest list of column hits
MaxColumnHits == 3

\* hits for two columns of cust and one of prd_mstr
ColumnHits ==
    {h \in {[table |-> t, column |-> c, score |-> r] :
                t \in {"cust", "prd_mstr"}, c \in {"ct_id", "nm"}, r \in HitScores} :
         h.table = "prd_mstr" => h.column = "nm"}

SelectedTableLists == {<<>>, <<"cust">>, <<"cust", "prd_mstr">>, <<"prd_mstr", "ord_ln">>}

InitColumns ==
    \E min_confidence \in MinConfidences, max_columns_per_table \in 1..MaxColumnsLimit :
        LET g == build_relationship_graph(ChainPatterns)
        IN  /\ adjacency_list = g.adj
            /\ relationship_metadata = g.md
            /\ iter_order = Alphabetical
            /\ config = ManagerConfig(min_confidence, DefaultMaxTables, max_columns_per_table,
                                      TRUE, TRUE, ChainPatterns)
            /\ analyzer = DefaultAnalyzer
            /\ call = Ready
            /\ ret = None

\* schema_manager.select_columns(query, semantic_results, selected_tables)
SelectColumns(query, columns, selected_tables) ==
    /\ call = Ready
    /\ call' = [op |-> "select_columns", query |-> query, columns |-> columns,
                selected_tables |-> selected_tables]
    /\ ret' = select_columns(Mgr, query, [columns |-> columns, tables |-> <<>>],
                             selected_tables)
    /\ UNCHANGED <<adjacency_list, relationship_metadata, iter_order, config, analyzer>>

NextColumns ==
    \/ \E query \in Queries, columns \in SeqUpTo(ColumnHits, MaxColumnHits),
          selected_tables \in SelectedTableLists :
           SelectColumns(query, columns, selected_tables)
    \/ Return

SpecColumns == InitColumns /\ [][NextColumns]_vars

(***************************************************************************)
(* SpecShared: the query-time operations interleaved on one SchemaManager   *)
(***************************************************************************)
\* a configuration that declares one relationship: ord_ln and prd_mstr are
\* absent from the graph
PartialPatterns == <<Decl("cust", <<Fk("ord_hdr", "ct_id")>>)>>

SharedSchemas == {ChainPatterns, DiamondPatterns, PartialPatterns}

InitShared ==
    \E table_patterns \in SharedSchemas, completion \in BOOLEAN :
        LET g == build_relationship_graph(table_patterns)
        IN  /\ adjacency_list = g.adj
            /\ relationship_metadata = g.md
            /\ iter_order \in PathOrders
            /\ config = ManagerConfig((15 * ConfOne) \div 100, MaxTablesLimit,
                                      DefaultMaxColumns, TRUE, completion, table_patterns)
            /\ analyzer \in {DefaultAnalyzer, PurchaseAnalyzer(<<"ord_hdr", "ord_ln">>, <<>>)}
            /\ call = Ready
            /\ ret = None

\* schema_manager._infer_table_relationships(selected_tables, context)
InferRelationships(selected_tables) ==
    /\ call = Ready
    /\ call' = [op |-> "infer_table_relationships", selected_tables |-> selected_tables]
    /\ ret' = infer_table_relationships(adjacency_list, selected_tables)
    /\ adjacency_list' = AfterIndexing(adjacency_list,
            IndexedByInfer(adjacency_list, selected_tables))
    /\ UNCHANGED <<relationship_metadata, iter_order, config, analyzer>>

NextShared ==
    \/ \E table1, table2 \in Tables, max_depth \in 0..MaxDepth :
           FindPaths(table1, table2, max_depth)
    \/ \E selected_tables \in DistinctLists(MaxSelected) : CompleteRelationships(selected_tables)
    \/ \E selected_tables \in DistinctLists(MaxSelected) : InferRelationships(selected_tables)
    \/ \E query \in Queries, columns \in SeqUpTo(Hits, MaxHits) :
           SelectTables(query, [columns |-> columns, tables |-> <<>>], NoTables)
    \/ \E query \in Queries, columns \in SeqUpTo(ColumnHits, MaxHits),
          selected_tables \in SelectedTableLists :
           SelectColumns(query, columns, selected_tables)
    \/ Return

SpecShared == InitShared /\ [][NextShared]_vars

(***************************************************************************)
(* SpecAnalyze: QueryAnalyzer.analyze_query over pattern configurations    *)
(***************************************************************************)
\* TablePattern(table_name, keywords, aliases, relationships, exclusion_patterns),
\* query_analyzer.py:24-31
TablePattern(table_name, keywords, exclusion_patterns) ==
    [table_name |-> table_name, keywords |-> keywords, aliases |-> <<>>, relationships |-> <<>>, exclusion_patterns |-> exclusion_patterns]

\* at most this many query patterns are configured
MaxPatterns == 2

\* the pattern ids, in configuration order
PatternIds == <<"purchase", "customer", "product">>

\* the tables of the pattern configured at each position
PatternTables ==
    <<[required |-> <<"cust">>, optional |-> <<>>, excluded |-> <<"ord_hdr">>],
      [required |-> <<"ord_hdr">>, optional |-> <<"prd_mstr">>, excluded |-> <<>>],
      [required |-> <<>>, optional |-> <<"ord_ln">>, excluded |-> <<"cust">>]>>

\* keyword lists: none; one keyword; two keywords; another keyword
PatternKeywords == {<<>>, <<"purchase">>, <<"purchase", "refund">>, <<"customer">>}

\* confidence_boost: -0.5, 0.0, 0.2, 0.5 and 1.5
PatternBoosts == {0 - ConfOne \div 2, 0, ConfOne \div 5, ConfOne \div 2, (3 * ConfOne) \div 2}

\* the query pattern configured at position i
PatternsAt(i) ==
    {QueryPattern(PatternIds[i], k, PatternTables[i].required, PatternTables[i].optional,
                  PatternTables[i].excluded, b) : k \in PatternKeywords, b \in PatternBoosts}

\* the values of self.query_patterns, a dict keyed by pattern_id, in
\* insertion order (query_analyzer.py:79-81)
QueryPatternLists ==
    UNION {{qp \in [1..n -> UNION {PatternsAt(i) : i \in 1..n}] :
                \A i \in 1..n : qp[i] \in PatternsAt(i)} : n \in 0..MaxPatterns}

\* the values of self.table_patterns: none; a table with a keyword; the same
\* with an exclusion term; a table with exclusion terms only
TablePatternLists ==
    {<<>>,
     <<TablePattern("cust", <<"customer">>, <<>>)>>,
     <<TablePattern("cust", <<"customer">>, <<"archive">>)>>,
     <<TablePattern("prd_mstr", <<>>, <<"archive", "purchase">>)>>}

\* the scenario query; a query with no word of any pattern; a query in
\* upper case; a query of one keyword
AnalyzeQueries ==
    {ScenarioQuery, <<"list", "all", "items">>, <<"Customers">>, <<"refund">>}

\* QueryAnalyzer(config_path), query_analyzer.py:52-65
InitAnalyze ==
    LET g == build_relationship_graph(ChainPatterns)
    IN  /\ adjacency_list = g.adj
        /\ relationship_metadata = g.md
        /\ iter_order = Alphabetical
        /\ config = DefaultConfig(ChainPatterns)
        /\ analyzer \in {[query_patterns |-> qp, table_patterns |-> tp] :
                             qp \in QueryPatternLists, tp \in TablePatternLists}
        /\ call = Ready
        /\ ret = None

\* query_analyzer.analyze_query(query)
AnalyzeQuery(query) ==
    /\ call = Ready
    /\ call' = [op |-> "analyze_query", query |-> query]
    /\ ret' = analyze_query(analyzer, query)
    /\ UNCHANGED <<adjacency_list, relationship_metadata, iter_order, config, analyzer>>

NextAnalyze ==
    \/ \E query \in AnalyzeQueries : AnalyzeQuery(query)
    \/ Return

SpecAnalyze == InitAnalyze /\ [][NextAnalyze]_vars

(***************************************************************************)
(* SpecConfidence: the confidence the selectors compute for a hit, next to *)
(* normalize_score                                                         *)
(***************************************************************************)
\* SchemaManager(query_analyzer, config), schema_manager.py:62-84
InitConfidence ==
    LET g == build_relationship_graph(ChainPatterns)
    IN  /\ adjacency_list = g.adj
        /\ relationship_metadata = g.md
        /\ iter_order = Alphabetical
        /\ config = DefaultConfig(ChainPatterns)
        /\ analyzer = DefaultAnalyzer
        /\ call = Ready
        /\ ret = None

\* schema_manager._calculate_column_confidence({'score': score})
ColumnConfidence(score) ==
    /\ call = Ready
    /\ call' = [op |-> "calculate_column_confidence", score |-> score]
    /\ ret' = calculate_column_confidence(score)
    /\ UNCHANGED <<adjacency_list, relationship_metadata, iter_order, config, analyzer>>

\* schema_manager._calculate_table_confidence({'score': score})
TableConfidence(score) ==
    /\ call = Ready
    /\ call' = [op |-> "calculate_table_confidence", score |-> score]
    /\ ret' = calculate_table_confidence(score)
    /\ UNCHANGED <<adjacency_list, relationship_metadata, iter_order, config, analyzer>>

NextConfidence ==
    \/ \E score \in RawScores : ColumnConfidence(score)
    \/ \E score \in RawScores : TableConfidence(score)
    \/ \E score \in RawScores : call = Ready /\ Normalize(score)
    \/ Return

SpecConfidence == InitConfidence /\ [][NextConfidence]_vars

(***************************************************************************)
(* SpecSimple: SimpleTableSelector.select_tables (simple_table_selector.py) *)
(*                                                                         *)
(* Scores are raw scores in hundredths.  A rule key "cust+prd_mstr" is the *)
(* token list <<"cust", "+", "prd_mstr">>.                                 *)
(***************************************************************************)
Plus == "+"

RuleKey(table1, table2) == <<table1, Plus, table2>>

BridgeRule(rule_key, bridge_tables) == [rule_key |-> rule_key, bridge_tables |-> bridge_tables]

\* simple_table_selector.py:26-30: the items of the default rules, in
\* insertion order
DefaultBridgeRules ==
    <<BridgeRule(RuleKey("cust", "prd_mstr"), <<"ord_hdr", "ord_ln">>),
      BridgeRule(RuleKey("prd_mstr", "cust"), <<"ord_hdr", "ord_ln">>)>>

\* simple_table_selector.py:64-71, 74-78: one loop over hits; indexing the
\* defaultdict(float) at line 70 stores 0.0 for a table seen for the first time
RECURSIVE ExtractScores(_, _)
ExtractScores(table_scores, hits) ==
    IF hits = <<>> THEN table_scores
    ELSE LET table == Head(hits).table
             score == Head(hits).score
         IN  ExtractScores(
                 IF table = None THEN table_scores
                 ELSE LET seen == IF Has(table_scores, table) THEN table_scores
                                  ELSE Put(table_scores, table, 0)
                      IN  IF score > seen.val[table] THEN Put(seen, table, score) ELSE seen,
                 Tail(hits))

\* simple_table_selector.py:62-80
extract_table_scores(semantic_results) ==
    ExtractScores(ExtractScores(EmptyScores, semantic_results.columns), semantic_results.tables)

\* min_score=0.15, simple_table_selector.py:83
SimpleMinScore == 15

\* simple_table_selector.py:82-89
filter_low_confidence(table_scores, min_score) ==
    LET keys == SelectSeq(table_scores.keys, LAMBDA t : table_scores.val[t] >= min_score)
    IN  [keys |-> keys, val |-> [t \in Range(keys) |-> table_scores.val[t]]]

\* list.insert keeping the order of equal scores (sorted is stable), highest
\* score first
RECURSIVE InsertByScore(_, _, _)
InsertByScore(sorted, table, val) ==
    IF sorted = <<>> THEN <<table>>
    ELSE IF val[Head(sorted)] >= val[table]
    THEN <<Head(sorted)>> \o InsertByScore(Tail(sorted), table, val)
    ELSE <<table>> \o sorted

\* simple_table_selector.py:96: sorted(table_scores.items(), key=score, reverse=True)
RECURSIVE SortedByScore(_, _)
SortedByScore(keys, val) ==
    IF keys = <<>> THEN <<>>
    ELSE InsertByScore(SortedByScore(SubSeq(keys, 1, Len(keys) - 1), val), keys[Len(keys)], val)

AnyOccurs(words, query) == \E i \in 1..Len(words) : Occurs(words[i], query)

\* simple_table_selector.py:99-111: the exclusion rules
SimpleExcluded(query_lower) ==
    IF AnyOccurs(<<"employee", "staff", "worker">>, query_lower)
    THEN {"cust", "wh_mstr", "mkt_cmp"}
    ELSE IF AnyOccurs(<<"customer", "client", "buyer">>, query_lower)
    THEN {"emp_mstr", "wh_mstr"}
    ELSE IF AnyOccurs(<<"product", "item", "inventory">>, query_lower)
    THEN {"emp_mstr", "wh_mstr", "mkt_cmp"}
    ELSE {}

\* simple_table_selector.py:91-119
apply_query_filtering(query, table_scores) ==
    LET query_lower == Lower(query)
        sorted_tables == SortedByScore(table_scores.keys, table_scores.val)
    IN  SelectSeq(sorted_tables, LAMBDA t : t \notin SimpleExcluded(query_lower))

\* simple_table_selector.py:129: set(rule_key.split('+'))
RuleTables(rule_key) == {rule_key[i] : i \in {j \in 1..Len(rule_key) : rule_key[j] # Plus}}

\* simple_table_selector.py:133-135
RECURSIVE AppendMissing(_, _)
AppendMissing(final_tables, bridge_tables) ==
    IF bridge_tables = <<>> THEN final_tables
    ELSE AppendMissing(
             IF Head(bridge_tables) \notin Range(final_tables)
             THEN Append(final_tables, Head(bridge_tables)) ELSE final_tables,
             Tail(bridge_tables))

\* simple_table_selector.py:128-135: the loop over the rules
RECURSIVE BridgeLoop(_, _, _)
BridgeLoop(bridge_rules, table_set, final_tables) ==
    IF bridge_rules = <<>> THEN final_tables
    ELSE BridgeLoop(Tail(bridge_rules), table_set,
             IF RuleTables(Head(bridge_rules).rule_key) \subseteq table_set
             THEN AppendMissing(final_tables, Head(bridge_rules).bridge_tables)
             ELSE final_tables)

\* simple_table_selector.py:121-137
add_bridge_tables(bridge_rules, relevant_tables) ==
    BridgeLoop(bridge_rules, Range(relevant_tables), relevant_tables)

\* simple_table_selector.py:32-60; the outcome is [result, locals]
simple_select_tables(bridge_rules, query, semantic_results, max_tables) ==
    LET table_scores == extract_table_scores(semantic_results)
        filtered_tables == filter_low_confidence(table_scores, SimpleMinScore)
        relevant_tables == apply_query_filtering(query, filtered_tables)
        final_tables == add_bridge_tables(bridge_rules, relevant_tables)
    IN  [result |-> Prefix(final_tables, max_tables),
         locals |-> [table_scores |-> table_scores, relevant_tables |-> relevant_tables,
                     final_tables |-> final_tables]]

\* the largest max_tables asked of the simple selector (its default is 4)
MaxReturned == 4

\* the tables the search service finds for the simple selector
SimpleHitTables == {"cust", "prd_mstr", "emp_mstr", "ord_hdr"}

\* raw scores 0.10 (below min_score) and 0.38
SimpleHits == {Hit(t, r) : t \in SimpleHitTables, r \in {10, 38}}

\* a customer query, an employee query, a product query and a query no rule
\* is about
SimpleQueries == {ScenarioQuery, <<"staff", "by", "product">>, <<"inventory">>, <<"refund">>}

\* SimpleTableSelector(bridge_table_rules), simple_table_selector.py:19-30: the
\* default rules, or one rule of the caller
InitSimple ==
    /\ adjacency_list = EmptyDict
    /\ relationship_metadata = EmptyDict
    /\ iter_order = Alphabetical
    /\ config \in {[bridge_rules |-> DefaultBridgeRules],
                   [bridge_rules |-> <<BridgeRule(RuleKey("cust", "emp_mstr"), <<"ord_hdr">>)>>]}
    /\ analyzer = DefaultAnalyzer
    /\ call = Ready
    /\ ret = None

\* selector.select_tables(query, semantic_results, max_tables)
SimpleSelectTables(query, semantic_results, max_tables) ==
    /\ call = Ready
    /\ call' = [op |-> "SimpleTableSelector.select_tables", query |-> query,
                semantic_results |-> semantic_results, max_tables |-> max_tables]
    /\ ret' = simple_select_tables(config.bridge_rules, query, semantic_results, max_tables)
    /\ UNCHANGED <<adjacency_list, relationship_metadata, iter_order, config, analyzer>>

NextSimple ==
    \/ /\ call = Ready
       /\ \E query \in SimpleQueries, columns \in SeqUpTo(SimpleHits, MaxHits + 1),
             tables \in SeqUpTo(SimpleHits, 1), max_tables \in 1..MaxReturned :
              SimpleSelectTables(query, [columns |-> columns, tables |-> tables], max_tables)
    \/ Return

SpecSimple == InitSimple /\ [][NextSimple]_vars

(***************************************************************************)
(* Graph distance, defined without the path finder                         *)
(***************************************************************************)
\* the tables within k hops of the tables S, moving inside the tables `inside`
RECURSIVE Within(_, _, _, _)
Within(adj, inside, S, k) ==
    IF k = 0 THEN S
    ELSE Within(adj, inside,
                S \cup {t \in inside : \E x \in S : x \in DOMAIN adj /\ t \in adj[x]}, k - 1)

AllNames(adj) == DOMAIN adj \cup UNION {adj[x] : x \in DOMAIN adj}

Reachable(adj, inside, a, b, k) == b \in Within(adj, inside, {a}, k)

\* the least k in k0..n with b within k hops of a inside `inside`; -1 when
\* there is none
RECURSIVE LeastHops(_, _, _, _, _, _)
LeastHops(adj, inside, a, b, k0, n) ==
    IF k0 > n THEN -1
    ELSE IF Reachable(adj, inside, a, b, k0) THEN k0
    ELSE LeastHops(adj, inside, a, b, k0 + 1, n)

\* the least number of hops from a to b inside `inside`; -1 when there is no route
Distance(adj, inside, a, b) == LeastHops(adj, inside, a, b, 0, Cardinality(AllNames(adj)))

\* the adjacency list of the chain cust - ord_hdr - ord_ln - prd_mstr
ChainAdjacency == build_relationship_graph(ChainPatterns).adj

AllTables == <<"cust", "ord_hdr", "ord_ln", "prd_mstr">>

(***************************************************************************)
(* Claims                                                                  *)
(***************************************************************************)
IsSelectTables == call.op = "select_tables"

\* C1: on the chain graph, when the hits make exactly cust and prd_mstr the
\* initial selection (completion enabled), select_tables returns the selected
\* set {cust, ord_hdr, ord_ln, prd_mstr} and the bridge set {ord_hdr, ord_ln}.
C1_ChainBridgesReturned ==
    (/\ IsSelectTables
     /\ adjacency_list = ChainAdjacency
     /\ config.enable_relationship_completion
     /\ Range(ret.locals.initial_tables) = {"cust", "prd_mstr"})
    => /\ ret.raised = None
       /\ Range(ret.result.selected_tables) = Tables
       /\ Len(ret.result.selected_tables) = 4
       /\ Range(ret.result.bridge_tables_added) = {"ord_hdr", "ord_ln"}

\* C2: with context filtering enabled, no table of the context's
\* excluded_tables is in the final selected-table list select_tables builds.
C2_ExcludedNeverSelected ==
    (IsSelectTables /\ config.enable_context_filtering)
    => Range(ret.locals.completed_tables) \cap ret.locals.context.excluded_tables = {}

\* C3: select_tables with no column hits and no table hits does not raise; it
\* returns an empty selected-table list and a reasoning string.
C3_EmptyHitsReturnEmpty ==
    (IsSelectTables /\ call.semantic_results = [columns |-> <<>>, tables |-> <<>>])
    => /\ ret.raised = None
       /\ ret.result.selected_tables = <<>>
       /\ ret.result.selection_reasoning # <<>>

IsComplete == call.op = "complete_table_relationships"

\* C4: after _complete_table_relationships(S), completion enabled, any two
\* tables of S that the graph joins within CompletionDepth hops are joined
\* inside the completed set by a route of their graph distance.
C4_CompletedJoinsAtDistance ==
    (IsComplete /\ config.enable_relationship_completion)
    => \A a, b \in Range(call.selected_tables) :
           (/\ a # b
            /\ InGraph(adjacency_list, a, b)
            /\ Reachable(adjacency_list, Tables, a, b, CompletionDepth))
           => Distance(adjacency_list, Range(ret.completed), a, b)
                  = Distance(adjacency_list, Tables, a, b)

\* the completion of [cust, prd_mstr] on the chain added ord_hdr and ord_ln
C4_Witness ==
    /\ IsComplete
    /\ adjacency_list = ChainAdjacency
    /\ call.selected_tables = <<"cust", "prd_mstr">>
    /\ ret.bridges = <<"ord_hdr", "ord_ln">>
    /\ ret.completed = AllTables

IsFindPaths == call.op = "find_relationship_paths"

\* C5: for distinct tables, _find_relationship_paths returns a non-empty list
\* exactly when both are in the graph and the second is within max_depth hops
\* of the first, and then its first path has graph-distance hops; on the chain
\* with depth 3 it is [cust, ord_hdr, ord_ln, prd_mstr].
C5_FirstPathIsShortest ==
    (IsFindPaths /\ call.table1 # call.table2)
    => LET joined == /\ InGraph(adjacency_list, call.table1, call.table2)
                     /\ Reachable(adjacency_list, Tables, call.table1, call.table2,
                                  call.max_depth)
       IN  /\ (ret # <<>>) <=> joined
           /\ joined => Len(ret[1]) - 1
                            = Distance(adjacency_list, Tables, call.table1, call.table2)
           /\ (/\ adjacency_list = ChainAdjacency
               /\ call.table1 = "cust"
               /\ call.table2 = "prd_mstr"
               /\ call.max_depth = 3) => ret[1] = AllTables

\* the path finder found the chain from cust to prd_mstr
C5_Witness ==
    /\ IsFindPaths
    /\ adjacency_list = ChainAdjacency
    /\ call.table1 = "cust"
    /\ call.table2 = "prd_mstr"
    /\ call.max_depth = 3
    /\ ret = <<AllTables>>

\* path p leads from a to b along edges, without a table twice, in at most
\* max_depth hops
IsSimplePath(adj, p, a, b, max_depth) ==
    /\ Len(p) >= 1
    /\ p[1] = a
    /\ p[Len(p)] = b
    /\ \A i, j \in 1..Len(p) : p[i] = p[j] => i = j
    /\ \A i \in 1..(Len(p) - 1) : p[i] \in DOMAIN adj /\ p[i + 1] \in adj[p[i]]
    /\ Len(p) - 1 <= max_depth

\* C6: every path _find_relationship_paths returns starts at the first table,
\* ends at the second, holds no table twice, follows edges of the graph and
\* has at most max_depth hops; the list is in non-decreasing order of length.
C6_PathsSimpleAndSorted ==
    IsFindPaths
    => /\ \A i \in 1..Len(ret) :
              IsSimplePath(adjacency_list, ret[i], call.table1, call.table2, call.max_depth)
       /\ \A i \in 1..(Len(ret) - 1) : Len(ret[i]) <= Len(ret[i + 1])

\* a call that returned paths of two lengths, the longer of max_depth hops
C6_Witness ==
    /\ IsFindPaths
    /\ Len(ret) >= 2
    /\ Len(ret[1]) < Len(ret[Len(ret)])
    /\ Len(ret[Len(ret)]) - 1 = call.max_depth
    /\ call.table1 \in adjacency_list[call.table1]

\* C7: the adjacency structure is symmetric after any add_relationship calls:
\* b is a neighbour of a if and only if a is a neighbour of b.
C7_AdjacencySymmetric ==
    \A a \in DOMAIN adjacency_list : \A b \in adjacency_list[a] :
        b \in DOMAIN adjacency_list /\ a \in adjacency_list[b]

\* add_relationship was called again for an edge the chain configuration
\* declares, on a graph that also holds a self-relation
C7_Witness ==
    /\ call.op = "add_relationship"
    /\ call.table1 = "ord_hdr"
    /\ call.table2 = "cust"
    /\ relationship_metadata # EmptyDict
    /\ "ord_ln" \in DOMAIN adjacency_list
    /\ "ord_ln" \in adjacency_list["ord_ln"]
    /\ "ord_hdr" \in adjacency_list["cust"]

IsSelectColumns == call.op = "select_columns"

CountOf(columns, table) == Cardinality({i \in 1..Len(columns) : columns[i].table = table})

\* C8: select_columns returns at most max_columns_per_table records for any
\* table, and no count of table_distribution exceeds max_columns_per_table.
C8_ColumnCap ==
    IsSelectColumns
    => /\ \A t \in Tables :
              CountOf(ret.result.selected_columns, t) <= config.max_columns_per_table
       /\ \A t \in DOMAIN ret.result.table_distribution :
              ret.result.table_distribution[t] <= config.max_columns_per_table

\* three hits for cust, all above the threshold and two of them for the same
\* column, were cut to the cap
C8_Witness ==
    /\ IsSelectColumns
    /\ Len(call.columns) = 3
    /\ \A i \in 1..3 : /\ call.columns[i].table = "cust"
                       /\ calculate_column_confidence(call.columns[i].score)
                              >= config.min_confidence
    /\ call.columns[1].column = call.columns[2].column
    /\ "cust" \in Range(call.selected_tables)
    /\ CountOf(ret.result.selected_columns, "cust") = config.max_columns_per_table

\* the parts of an outcome of select_tables that C9 compares
Selection(outcome) ==
    [selected_tables |-> outcome.locals.completed_tables,
     bridge_tables_added |-> outcome.locals.bridge_tables_added,
     confidence_scores |-> outcome.locals.final_confidence_scores,
     relationships |-> outcome.locals.relationships]

\* C9: two runs of select_tables on identical inputs compute identical
\* selected tables, bridge tables, confidence scores and relationships,
\* whatever the iteration order of the str sets in either run.
C9_RunsAgree ==
    (IsSelectTables /\ call.run = 2) => Selection(ret) = Selection(call.first)

IsNormalize == call.op = "normalize_score"

\* C10: normalize_score(s) lies in [0, 100]; it is 0 for every s <= 0 and 100
\* for every s >= 1.0.
C10_NormalizedRange ==
    IsNormalize
    => /\ 0 <= ret /\ ret <= 100 * PctOne
       /\ call.score <= 0 => ret = 0
       /\ call.score >= RawOne => ret = 100 * PctOne

\* normalize_score(-5) returned 0
C10_Witness ==
    /\ IsNormalize
    /\ call.score = 0 - 5 * RawOne
    /\ ret = 0

\* C11: normalize_score is monotonically non-decreasing: every raw score not
\* above the one normalized gets a value not above the value returned, also
\* across bands and outside [0, 1].
C11_Monotonic ==
    IsNormalize
    => \A s1 \in RawScores :
           /\ s1 <= call.score => normalize_score(s1) <= ret
           /\ s1 >= call.score => normalize_score(s1) >= ret

\* normalize_score(0.60) returned 70, in another band than 0.59 and above it
C11_Witness ==
    /\ IsNormalize
    /\ call.score = 60
    /\ ret = 70 * PctOne
    /\ normalize_score(59) < ret

\* the formula of the band that ends at raw score s, and of the band that
\* starts there (below 0 the clamped score, above 1.0 the constant 100)
FormulaBelow(s) ==
    IF s = 0 THEN BottomBand(ClampNegative(s))
    ELSE IF s = 20 THEN BottomBand(s)
    ELSE IF s = 40 THEN LowBand(s)
    ELSE IF s = 60 THEN MediumBand(s)
    ELSE IF s = 80 THEN HighBand(s)
    ELSE PctBand(s, 80, 90, 10)

FormulaAbove(s) ==
    IF s = 0 THEN BottomBand(s)
    ELSE IF s = 20 THEN LowBand(s)
    ELSE IF s = 40 THEN MediumBand(s)
    ELSE IF s = 60 THEN HighBand(s)
    ELSE IF s = 80 THEN TopBand(s)
    ELSE TopBand(s + 1)

BoundaryValues == [s \in {0, 20, 40, 60, 80, 100} |->
                      CASE s = 0 -> 0 [] s = 20 -> 10 [] s = 40 -> 40
                        [] s = 60 -> 70 [] s = 80 -> 90 [] s = 100 -> 100]

\* C12: normalize_score has no jump at a band boundary: at 0, 0.2, 0.4, 0.6,
\* 0.8 and 1.0 the formulas of the band below and of the band above both give
\* the value returned there: 0, 10, 40, 70, 90 and 100.
C12_ContinuousAtBoundaries ==
    (IsNormalize /\ call.score \in DOMAIN BoundaryValues)
    => /\ ret = BoundaryValues[call.score] * PctOne
       /\ FormulaBelow(call.score) = ret
       /\ FormulaAbove(call.score) = ret

\* normalize_score(0.40) returned 40, the end of the low band
C12_Witness ==
    /\ IsNormalize
    /\ call.score = 40
    /\ ret = 40 * PctOne
    /\ LowBand(40) = ret

\* the normalized confidences of the hits of a call that name table t
HitConfidences(semantic_results, t) ==
    {calculate_column_confidence(semantic_results.columns[i].score) :
         i \in {j \in 1..Len(semantic_results.columns) : semantic_results.columns[j].table = t}}
    \cup
    {calculate_table_confidence(semantic_results.tables[i].score) :
         i \in {j \in 1..Len(semantic_results.tables) : semantic_results.tables[j].table = t}}

\* C13: the confidence select_tables computes for a table is the maximum of
\* the normalized confidences of all hits that name it, column-level and
\* table-level alike.
C13_BestIsMaximum ==
    IsSelectTables
    => \A t \in Range(ret.locals.semantic_tables.keys) :
           /\ ret.locals.semantic_tables.val[t] \in HitConfidences(call.semantic_results, t)
           /\ \A c \in HitConfidences(call.semantic_results, t) :
                  c <= ret.locals.semantic_tables.val[t]

\* C14: the initial selection of select_tables is the max_tables
\* highest-confidence tables of the filtered set: it has max_tables tables
\* (all of them when there are fewer) and no filtered table left out has a
\* strictly higher confidence than a table kept.
C14_InitialIsTopConfidence ==
    IsSelectTables
    => LET filtered == ret.locals.filtered_tables
           kept == Range(ret.locals.initial_tables)
       IN  /\ kept \subseteq Range(filtered.keys)
           /\ Cardinality(kept) = Min2(config.max_tables, Len(filtered.keys))
           /\ \A k \in kept : \A out \in Range(filtered.keys) \ kept :
                  filtered.val[out] <= filtered.val[k]

\* C15: the selected-table list exceeds max_tables only through bridge
\* tables: the initial selection has at most max_tables tables and the
\* selected tables are at most max_tables plus the bridge tables added.
C15_OverBudgetOnlyByBridges ==
    IsSelectTables
    => /\ Len(ret.locals.initial_tables) <= config.max_tables
       /\ Len(ret.locals.completed_tables)
              <= config.max_tables + Len(ret.locals.bridge_tables_added)
       /\ Range(ret.locals.completed_tables)
              = Range(ret.locals.initial_tables) \cup Range(ret.locals.bridge_tables_added)

\* a selection of max_tables tables that two bridge tables took over the
\* budget
C15_Witness ==
    /\ IsSelectTables
    /\ Len(ret.locals.initial_tables) = config.max_tables
    /\ Len(ret.locals.bridge_tables_added) = 2
    /\ Len(ret.locals.completed_tables) = config.max_tables + 2

\* a table_patterns configuration with an empty relationship string or a
\* declaration without a table name
Malformed(table_patterns) ==
    \E i \in 1..Len(table_patterns) :
        \/ table_patterns[i].table_name = None
        \/ \E j \in 1..Len(table_patterns[i].relationships) :
               table_patterns[i].relationships[j] = <<>>

\* C16: building the graph from a configuration with an empty relationship
\* string or a declaration without a table name fails explicitly (the
\* constructor raises), and no edge to an empty or missing table name is in
\* the graph.
C16_MalformedRejected ==
    /\ (call.op = "SchemaManager" /\ Malformed(config.table_patterns)) => ret # None
    /\ "" \notin AllNames(adjacency_list)
    /\ None \notin AllNames(adjacency_list)

QueryOps ==
    {"find_relationship_paths", "complete_table_relationships", "infer_table_relationships",
     "select_tables", "select_columns"}

\* C17: no query-time operation (_find_relationship_paths,
\* _complete_table_relationships, _infer_table_relationships, select_tables,
\* select_columns) changes the adjacency sets, the keys of the graph or the
\* relationship metadata, also when it is asked about absent tables.
C17_GraphReadOnly ==
    [][(call'.op \in QueryOps /\ call' # call)
           => /\ adjacency_list' = adjacency_list
              /\ relationship_metadata' = relationship_metadata]_vars

\* the path finder was asked about a table that is absent from the graph,
\* and the graph still has no key for it
C17_Witness ==
    /\ IsFindPaths
    /\ call.table1 \notin DOMAIN adjacency_list
    /\ call.table2 \in DOMAIN adjacency_list
    /\ ret = <<>>

IsAnalyzeQuery == call.op = "analyze_query"

\* no keyword of any configured query pattern occurs in the lower-cased query
NoPatternKeywordOccurs(an, query) ==
    \A i \in 1..Len(an.query_patterns) :
        \A j \in 1..Len(an.query_patterns[i].keywords) :
            ~Occurs(an.query_patterns[i].keywords[j], Lower(query))

\* C18: for a query in which no keyword of any configured query pattern
\* occurs, analyze_query returns the generic query type and empty
\* suggested_tables and excluded_tables, whatever the pattern configuration.
C18_NoMatchIsGeneric ==
    (IsAnalyzeQuery /\ NoPatternKeywordOccurs(analyzer, call.query))
        => /\ ret.query_type = "generic"
           /\ ret.suggested_tables = {}
           /\ ret.excluded_tables = {}

\* min(matched keywords / keyword count + boost, 1.0) on the ConfOne scale;
\* 0 for a pattern without keywords
ClaimedScore(pattern, query) ==
    IF Len(pattern.keywords) = 0 THEN 0
    ELSE LET matched == {j \in 1..Len(pattern.keywords) : Occurs(pattern.keywords[j], Lower(query))}
             sum == (Cardinality(matched) * ConfOne) \div Len(pattern.keywords) + pattern.confidence_boost
         IN  IF sum > ConfOne THEN ConfOne ELSE sum

\* the position of the first pattern whose score no pattern exceeds
FirstHighest(patterns, query) ==
    CHOOSE i \in 1..Len(patterns) :
        /\ \A j \in 1..Len(patterns) : ClaimedScore(patterns[j], query) <= ClaimedScore(patterns[i], query)
        /\ \A j \in 1..(i - 1) : ClaimedScore(patterns[j], query) < ClaimedScore(patterns[i], query)

\* the first pattern with the highest score is the best pattern, whatever
\* that score is
C19_FirstHighestIsBest ==
    (/\ IsAnalyzeQuery
     /\ analyzer.query_patterns # <<>>
     /\ \A i \in 1..Len(analyzer.query_patterns) : analyzer.query_patterns[i].keywords # <<>>)
        => LET first == FirstHighest(analyzer.query_patterns, call.query)
           IN  /\ ret.query_type = analyzer.query_patterns[first].pattern_id
               /\ ret.confidence = ClaimedScore(analyzer.query_patterns[first], call.query)

\* C19: when some pattern scores above zero, analyze_query picks the first
\* pattern in configuration order whose score is the highest: query_type is
\* its id, the confidence is its score, and a later pattern with an equal
\* score does not replace it; when no pattern scores above zero no pattern is
\* picked, query_type is generic and the confidence is 0.
C19_FirstHighestPositiveIsBest ==
    IsAnalyzeQuery =>
        LET patterns == analyzer.query_patterns
            positive == \E i \in 1..Len(patterns) : ClaimedScore(patterns[i], call.query) > 0
        IN  IF positive
            THEN LET first == FirstHighest(patterns, call.query)
                 IN  /\ ret.query_type = patterns[first].pattern_id
                     /\ ret.confidence = ClaimedScore(patterns[first], call.query)
                     /\ Range(patterns[first].required_tables) \subseteq ret.suggested_tables
                     /\ Range(patterns[first].excluded_tables) \subseteq ret.excluded_tables
            ELSE /\ ret.query_type = "generic"
                 /\ ret.confidence = 0

\* two patterns with different keywords tie below 1.0 and the first is kept
C19_Witness ==
    /\ IsAnalyzeQuery
    /\ Len(analyzer.query_patterns) >= 2
    /\ analyzer.query_patterns[1].keywords # analyzer.query_patterns[2].keywords
    /\ ClaimedScore(analyzer.query_patterns[1], call.query) = ClaimedScore(analyzer.query_patterns[2], call.query)
    /\ ClaimedScore(analyzer.query_patterns[1], call.query) \in 1..(ConfOne - 1)
    /\ ret.query_type = analyzer.query_patterns[1].pattern_id

\* the tables that occur in some search hit
HitTablesOf(semantic_results) ==
    {semantic_results.columns[i].table : i \in 1..Len(semantic_results.columns)}
        \cup {semantic_results.tables[i].table : i \in 1..Len(semantic_results.tables)}

\* C20: with context filtering enabled, a suggested table that occurs in a
\* search hit and was dropped, because its confidence is below the threshold
\* or because the context excludes it, is not in the filtered set; a suggested
\* table holds the floor confidence by addition only if it occurs in no hit.
C20_DroppedNotPutBack ==
    (IsSelectTables /\ config.enable_context_filtering)
        => \A t \in ret.locals.context.suggested_tables \cap HitTablesOf(call.semantic_results) :
               (\/ ret.locals.semantic_tables.val[t] < config.min_confidence
                \/ t \in ret.locals.context.excluded_tables)
                   => t \notin Range(ret.locals.filtered_tables.keys)

\* C21: when an available-tables set is supplied to select_tables (an empty
\* set included) and context filtering is enabled, no table outside that set
\* is in the filtered set or in the initial selection.
C21_OnlyAvailableTables ==
    (IsSelectTables /\ config.enable_context_filtering /\ call.available_tables.given)
        => /\ Range(ret.locals.filtered_tables.keys) \subseteq call.available_tables.tables
           /\ Range(ret.locals.initial_tables) \subseteq call.available_tables.tables

\* the tables strictly between the ends of path p
BetweenEnds(p) == {p[k] : k \in 2..(Len(p) - 1)}

\* C22: for _complete_table_relationships(S), the completed set is S united
\* with the bridge set, the bridge set is disjoint from S, and every bridge
\* table lies strictly inside the path the path finder returns first for some
\* pair of tables of S.
C22_BridgesFromFirstPaths ==
    IsComplete
    => LET S == call.selected_tables
       IN  /\ Range(ret.completed) = Range(S) \cup Range(ret.bridges)
           /\ Range(ret.bridges) \cap Range(S) = {}
           /\ \A b \in Range(ret.bridges) :
                  \E i, j \in 1..Len(S) :
                      /\ i < j
                      /\ LET paths == find_relationship_paths(adjacency_list, iter_order,
                                                              S[i], S[j], CompletionDepth)
                         IN  paths # <<>> /\ b \in BetweenEnds(paths[1])

\* on the chain the first path from cust to prd_mstr runs through ord_ln,
\* which is selected already: only ord_hdr is a bridge
C22_Witness ==
    /\ IsComplete
    /\ adjacency_list = ChainAdjacency
    /\ call.selected_tables = <<"cust", "prd_mstr", "ord_ln">>
    /\ ret.bridges = <<"ord_hdr">>
    /\ ret.completed = AllTables

\* C23: for every configured table pattern, its table is in suggested_tables
\* whenever one of its keywords occurs in the lower-cased query, and its table
\* is in excluded_tables whenever it has exclusion terms and none of them
\* occurs in the query, each rule whatever the other one gives.
C23_TableRulesIndependent ==
    IsAnalyzeQuery
    => \A i \in 1..Len(analyzer.table_patterns) :
           LET tp == analyzer.table_patterns[i]
               query_lower == Lower(call.query)
           IN  /\ (\E k \in 1..Len(tp.keywords) : Occurs(tp.keywords[k], query_lower))
                      => tp.table_name \in ret.suggested_tables
               /\ (/\ tp.exclusion_patterns # <<>>
                   /\ \A k \in 1..Len(tp.exclusion_patterns) :
                          ~Occurs(tp.exclusion_patterns[k], query_lower))
                      => tp.table_name \in ret.excluded_tables

\* the column hit at position i of the call is eligible: its confidence is at
\* or above the minimum threshold and its table is selected
Eligible(i) ==
    /\ calculate_column_confidence(call.columns[i].score) >= config.min_confidence
    /\ call.columns[i].table \in Range(call.selected_tables)

\* how many times the record h occurs in the list
Occurrences(columns, h) == Cardinality({i \in 1..Len(columns) : columns[i] = h})

\* C24: select_columns returns, for each selected table T, exactly
\* min(max_columns_per_table, n_T) of T's n_T eligible column hits, never
\* rejecting a hit of T with strictly higher confidence than one it accepts;
\* it returns no ineligible hit, and the returned list is in non-increasing
\* confidence order.
C24_TopEligiblePerTable ==
    IsSelectColumns
    => LET selected == ret.result.selected_columns
           eligible == {i \in 1..Len(call.columns) : Eligible(i)}
       IN  /\ \A t \in Range(call.selected_tables) :
                  CountOf(selected, t)
                      = Min2(config.max_columns_per_table,
                             Cardinality({i \in eligible : call.columns[i].table = t}))
           /\ \A i \in eligible : \A j \in 1..Len(selected) :
                  (/\ call.columns[i].table = selected[j].table
                   /\ calculate_column_confidence(call.columns[i].score)
                          > calculate_column_confidence(selected[j].score))
                      => Occurrences(selected, call.columns[i])
                             = Occurrences(call.columns, call.columns[i])
           /\ \A j \in 1..Len(selected) :
                  /\ \E i \in eligible : call.columns[i] = selected[j]
                  /\ Occurrences(selected, selected[j]) <= Occurrences(call.columns, selected[j])
           /\ \A j \in 1..(Len(selected) - 1) :
                  calculate_column_confidence(selected[j].score)
                      >= calculate_column_confidence(selected[j + 1].score)

\* two eligible hits of cust under a cap of 1: the later, stronger hit was
\* kept and the earlier, weaker one rejected; a hit of an unselected table
\* was left out
C24_Witness ==
    /\ IsSelectColumns
    /\ config.max_columns_per_table = 1
    /\ Len(call.columns) = 3
    /\ call.selected_tables = <<"cust">>
    /\ call.columns[1].table = "cust"
    /\ call.columns[2].table = "cust"
    /\ call.columns[3].table = "prd_mstr"
    /\ Eligible(1)
    /\ call.columns[1].score < call.columns[2].score
    /\ ret.result.selected_columns = <<call.columns[2]>>

IsHitConfidence == call.op \in {"calculate_column_confidence", "calculate_table_confidence"}

\* C25: for every raw score s, below 0 and above 1.0 included, the confidence
\* the table and column selectors compute for a hit equals
\* normalize_score(s) / 100.
C25_SelectorsUseNormalizer ==
    IsHitConfidence => ret * 100 * PctOne = normalize_score(call.score) * ConfOne

\* how many times the path p occurs in the list of paths
TimesReturned(paths, p) == Cardinality({i \in 1..Len(paths) : paths[i] = p})

\* C26: _find_relationship_paths(A, B, maxDepth) returns all paths between two
\* distinct tables: every simple path from A to B of at most maxDepth hops is
\* in the result exactly once, whatever the iteration order of the neighbour
\* sets.
C26_AllSimplePathsReturned ==
    (IsFindPaths /\ call.table1 # call.table2)
        => \A p \in DistinctLists(Cardinality(Tables)) :
               IsSimplePath(adjacency_list, p, call.table1, call.table2, call.max_depth)
                   => TimesReturned(ret, p) = 1

IsInfer == call.op = "infer_table_relationships"

\* the final table list of the call and the relationships computed for it
FinalTables == IF IsInfer THEN call.selected_tables ELSE ret.locals.completed_tables

Relationships == IF IsInfer THEN ret ELSE ret.locals.relationships

\* a and b are directly adjacent in the relationship graph
Adjacent(adj, a, b) ==
    \/ a \in DOMAIN adj /\ b \in adj[a]
    \/ b \in DOMAIN adj /\ a \in adj[b]

\* C27: the relationships list computed for the final (post-bridge) table list
\* contains a pair for two tables if and only if both are in the final list
\* and are directly adjacent in the relationship graph, and it contains each
\* unordered pair at most once.
C27_RelationshipsAreAdjacentPairs ==
    (IsInfer \/ IsSelectTables)
    => /\ \A a, b \in Tables :
              a # b =>
                  /\ (\E i \in 1..Len(Relationships) : Relationships[i] \in {<<a, b>>, <<b, a>>})
                         <=> (/\ a \in Range(FinalTables)
                              /\ b \in Range(FinalTables)
                              /\ Adjacent(adjacency_list, a, b))
                  /\ Cardinality({i \in 1..Len(Relationships) :
                                      Relationships[i] \in {<<a, b>>, <<b, a>>}}) <= 1
       /\ \A i \in 1..Len(Relationships) :
              /\ Relationships[i][1] # Relationships[i][2]
              /\ {Relationships[i][1], Relationships[i][2]} \subseteq Range(FinalTables)

\* select_tables completed [cust, prd_mstr] on the chain with two bridges and
\* computed the three relationships of the chain
C27_Witness ==
    /\ IsSelectTables
    /\ adjacency_list = ChainAdjacency
    /\ ret.locals.bridge_tables_added = <<"ord_hdr", "ord_ln">>
    /\ ret.locals.relationships
           = << <<"cust", "ord_hdr">>, <<"ord_hdr", "ord_ln">>, <<"ord_ln", "prd_mstr">> >>

\* C28: for every query and every pattern configuration, negative boosts and
\* boosts above 1 included, the confidence of the QueryContext analyze_query
\* returns lies in [0, 1].
C28_ContextConfidenceInUnit ==
    IsAnalyzeQuery => (0 <= ret.confidence /\ ret.confidence <= ConfOne)

\* the first pattern has a negative boost and scores below 0, the second has
\* a boost above 1 and is picked with confidence 1.0
C28_Witness ==
    /\ IsAnalyzeQuery
    /\ Len(analyzer.query_patterns) >= 2
    /\ analyzer.query_patterns[1].confidence_boost < 0
    /\ ClaimedScore(analyzer.query_patterns[1], call.query) < 0
    /\ analyzer.query_patterns[2].confidence_boost > ConfOne
    /\ analyzer.query_patterns[2].keywords # <<>>
    /\ ret.query_type = analyzer.query_patterns[2].pattern_id
    /\ ret.confidence = ConfOne

\* C29: in what select_tables builds for its result, the key set of
\* confidence_scores is the set of selected tables: every selected table has a
\* score, a bridge table the minimum-threshold confidence, and no table that
\* the max_tables truncation cut has one.
C29_ScoresForSelectedOnly ==
    IsSelectTables
    => /\ Range(ret.locals.final_confidence_scores.keys) = Range(ret.locals.completed_tables)
       /\ \A b \in Range(ret.locals.bridge_tables_added) :
              ret.locals.final_confidence_scores.val[b] = config.min_confidence

IsSimpleSelect == call.op = "SimpleTableSelector.select_tables"

\* C30: in SimpleTableSelector.select_tables, whenever both tables a bridge
\* rule names are among the tables that survive the score and query
\* filtering, every bridge table of that rule is in the returned list, for
\* every max_tables and every number of other surviving tables.
C30_RuleBridgesReturned ==
    IsSimpleSelect
    => \A i \in 1..Len(config.bridge_rules) :
           RuleTables(config.bridge_rules[i].rule_key) \subseteq Range(ret.locals.relevant_tables)
               => Range(config.bridge_rules[i].bridge_tables) \subseteq Range(ret.result)

====
